---- MODULE Spec2Model ----
(***************************************************************************)
(* Resilience layer of the email service: CircuitBreaker, RetryManager,    *)
(* RateLimiter, IdempotencyManager, EmailQueue and EmailService.sendEmail  *)
(* with provider fallback.                                                 *)
(*                                                                         *)
(* The specifications share the variables:                                 *)
(*   SpecCB    - one CircuitBreaker driven directly through execute(), as  *)
(*               the unit tests drive it, with overlapping calls;          *)
(*   SpecRetry - RetryManager.executeWithRetry against an arbitrary        *)
(*               operation and an arbitrary configuration;                 *)
(*   SpecDelay - RetryManager.calculateDelay on arbitrary inputs;          *)
(*   Spec      - EmailService.sendEmail, calls for one message id          *)
(*               overlapping at the awaits of the code;                    *)
(*   SpecSeq   - sendEmail called by one caller, with the administrative   *)
(*               methods and the idempotency sweep running in between;     *)
(*   SpecSoft  - sendEmail called by one caller, with providers that may   *)
(*               resolve with success = false;                             *)
(*   SpecRL    - one RateLimiter with overlapping checkRateLimit() calls;  *)
(*   SpecQ     - one EmailQueue with an arbitrary processor: enqueue,      *)
(*               the processing loop, and clear;                           *)
(*   SpecIdem  - one IdempotencyManager driven through its methods;        *)
(*   SpecCtor  - the service from before its construction;                 *)
(*   SpecQL    - the EmailQueue with two priority levels and one message   *)
(*               id;                                                       *)
(*   SpecOnce  - sendEmail called once by each of two callers for the      *)
(*               same message id;                                          *)
(*   SpecRLFair - SpecRL with its timers and the clock running on.         *)
(* Time is the integer clock `now` (Date.now()), advanced by Tick; the     *)
(* queue has its own clock `qNow` in units of 100 ms, advanced by QTick.   *)
(***************************************************************************)
EXTENDS Integers, Sequences, FiniteSets, TLC

\* ------------------------------------------------------------------ bounds
MaxTime == 2              \* the clock runs from 0 to MaxTime
failureThreshold == 2     \* config.circuitBreaker.failureThreshold
resetTimeoutMs == 1       \* config.circuitBreaker.resetTimeoutMs
HalfOpenSuccesses == 3    \* successes needed in HALF_OPEN (literal in onSuccess)

CbClients == {1, 2}       \* overlapping callers of execute() in SpecCB
Providers == {0, 1}       \* indexes of EmailService.providers
NumProviders == Cardinality(Providers)

Min(a, b) == IF a <= b THEN a ELSE b

\* ---------------------------------------------------------- CircuitBreaker
\* A breaker is the record of the fields of class CircuitBreaker; of its
\* config the field resetTimeoutMs is kept (failureThreshold is the same for
\* every breaker of the model).
newCircuitBreaker(timeout) ==
  [state |-> "CLOSED", failureCount |-> 0, lastFailureTime |-> 0, successCount |-> 0,
   resetTimeoutMs |-> timeout]

\* The breaker EmailService constructs for a provider
NewBreaker == newCircuitBreaker(resetTimeoutMs)

\* The reset timeouts of the breakers SpecCB constructs
TestResetTimeouts == {resetTimeoutMs, 2 * resetTimeoutMs}

shouldAttemptReset(cb, t) == t - cb.lastFailureTime >= cb.resetTimeoutMs

\* mutant: the first success in HALF_OPEN closes the breaker
onSuccess_CloseAtOnce(cb) ==
  LET c1 == [cb EXCEPT !.failureCount = 0]
  IN IF c1.state = "HALF_OPEN"
     THEN [c1 EXCEPT !.state = "CLOSED", !.successCount = 0]
     ELSE c1

\* mutant: a success that leaves the failure count as it is
onSuccess_KeepCount(cb) ==
  IF cb.state = "HALF_OPEN"
  THEN LET c2 == [cb EXCEPT !.successCount = @ + 1]
       IN IF c2.successCount >= HalfOpenSuccesses
          THEN [c2 EXCEPT !.state = "CLOSED", !.successCount = 0]
          ELSE c2
  ELSE cb

onSuccess(cb) ==
  LET c1 == [cb EXCEPT !.failureCount = 0]
  IN IF c1.state = "HALF_OPEN"
     THEN LET c2 == [c1 EXCEPT !.successCount = @ + 1]
          IN IF c2.successCount >= HalfOpenSuccesses
             THEN [c2 EXCEPT !.state = "CLOSED", !.successCount = 0]
             ELSE c2
     ELSE c1

\* mutant: the threshold comparison written with > instead of >=
onFailure_StrictThreshold(cb, t) ==
  LET c1 == [cb EXCEPT !.failureCount = @ + 1, !.lastFailureTime = t]
  IN IF c1.state = "HALF_OPEN"
     THEN [c1 EXCEPT !.state = "OPEN", !.successCount = 0]
     ELSE IF c1.failureCount > failureThreshold
          THEN [c1 EXCEPT !.state = "OPEN"]
          ELSE c1

\* mutant: a failure in HALF_OPEN is counted against the threshold like any other
onFailure_ThresholdOnly(cb, t) ==
  LET c1 == [cb EXCEPT !.failureCount = @ + 1, !.lastFailureTime = t]
  IN IF c1.failureCount >= failureThreshold
     THEN [c1 EXCEPT !.state = "OPEN", !.successCount = 0]
     ELSE c1

\* mutant: a failure in HALF_OPEN reopens the breaker but keeps the success count
onFailure_KeepSuccessCount(cb, t) ==
  LET c1 == [cb EXCEPT !.failureCount = @ + 1, !.lastFailureTime = t]
  IN IF c1.state = "HALF_OPEN"
     THEN [c1 EXCEPT !.state = "OPEN"]
     ELSE IF c1.failureCount >= failureThreshold
          THEN [c1 EXCEPT !.state = "OPEN"]
          ELSE c1

onFailure(cb, t) ==
  LET c1 == [cb EXCEPT !.failureCount = @ + 1, !.lastFailureTime = t]
  IN IF c1.state = "HALF_OPEN"
     THEN [c1 EXCEPT !.state = "OPEN", !.successCount = 0]
     ELSE IF c1.failureCount >= failureThreshold
          THEN [c1 EXCEPT !.state = "OPEN"]
          ELSE c1

\* mutant: a rejected call counts as the breaker's last failure
executeGate_RejectStamps(cb, t) ==
  IF cb.state = "OPEN"
  THEN IF shouldAttemptReset(cb, t)
       THEN [rejected |-> FALSE, cb |-> [cb EXCEPT !.state = "HALF_OPEN"]]
       ELSE [rejected |-> TRUE, cb |-> [cb EXCEPT !.lastFailureTime = t]]
  ELSE [rejected |-> FALSE, cb |-> cb]

\* The synchronous head of execute(): "reject", or the breaker with which the
\* wrapped operation is invoked.
executeGate(cb, t) ==
  IF cb.state = "OPEN"
  THEN IF shouldAttemptReset(cb, t)
       THEN [rejected |-> FALSE, cb |-> [cb EXCEPT !.state = "HALF_OPEN"]]
       ELSE [rejected |-> TRUE, cb |-> cb]
  ELSE [rejected |-> FALSE, cb |-> cb]

\* mutant: reset() closes the breaker but keeps the failure count
reset_KeepFailureCount(cb) ==
  [cb EXCEPT !.state = "CLOSED", !.successCount = 0, !.lastFailureTime = 0]

reset(cb) ==
  [cb EXCEPT !.state = "CLOSED", !.failureCount = 0, !.successCount = 0,
             !.lastFailureTime = 0]

\* ------------------------------------------------------------ RetryManager
\* JavaScript numbers of calculateDelay: a finite value, Infinity or NaN.
\* Finite values are counted in units of 1/(2*JitterSteps) ms, so that the
\* jitter factor 0.5 + Math.random() * 0.5 is exact.
JitterSteps == 4          \* Math.random() is drawn from {0, 1/4, 2/4, 3/4}
MaxRetriesBound == 3      \* config.retry.maxRetries ranges over 0..MaxRetriesBound
DoubleMaxExp == 1024      \* 2^1024 is the first power of two that is Infinity
BigAttempt == DoubleMaxExp + 2   \* an attempt whose power 2^(attempt-1) overflows

Fin(v) == [k |-> "fin", v |-> v]
Inf == [k |-> "inf"]
NaN == [k |-> "nan"]

\* Math.pow(m, e) for an integer m >= 1 and e >= 0; the finite case is exact
\* for the exponents the model draws (e < 31 or m = 1).
fpow(m, e) ==
  IF m = 1 THEN Fin(1)
  ELSE IF e >= DoubleMaxExp THEN Inf
  ELSE Fin(m ^ e)

\* a * b on non-negative numbers (0 * Infinity is NaN)
fmul(a, b) ==
  IF a.k = "nan" \/ b.k = "nan" THEN NaN
  ELSE IF a.k = "inf" THEN (IF b.k = "fin" /\ b.v = 0 THEN NaN ELSE Inf)
  ELSE IF b.k = "inf" THEN (IF a.v = 0 THEN NaN ELSE Inf)
  ELSE Fin(a.v * b.v)

\* Math.min(a, b) (NaN if either is NaN)
fmin(a, b) ==
  IF a.k = "nan" \/ b.k = "nan" THEN NaN
  ELSE IF a.k = "inf" THEN b
  ELSE IF b.k = "inf" THEN a
  ELSE Fin(Min(a.v, b.v))

\* a <= b (false if either is NaN)
fle(a, b) ==
  IF a.k = "nan" \/ b.k = "nan" THEN FALSE
  ELSE IF b.k = "inf" THEN TRUE
  ELSE IF a.k = "inf" THEN FALSE
  ELSE a.v <= b.v

\* calculateDelay(attempt) with Math.random() = r / JitterSteps.
calculateDelay(cfg, attempt, r) ==
  LET exponentialDelay == fmul(Fin(cfg.baseDelay), fpow(cfg.backoffMultiplier, attempt - 1))
      jitteredDelay == fmul(exponentialDelay, Fin(JitterSteps + r))
  IN fmin(jitteredDelay, Fin(cfg.maxDelay * 2 * JitterSteps))

\* maxDelay in the unit of calculateDelay's result
maxDelayOf(cfg) == Fin(cfg.maxDelay * 2 * JitterSteps)

RetryConfigs ==
  [maxRetries : 0 .. MaxRetriesBound, baseDelay : {0, 1, 3}, maxDelay : {0, 2, 5},
   backoffMultiplier : {1, 2}]

\* mutant: the last attempt is detected one attempt too early
retryCatch_OffByOne(cfg, attempt) ==
  IF attempt >= cfg.maxRetries THEN "throw" ELSE "delay"

\* The catch block of executeWithRetry: rethrow on the last attempt, else back off.
retryCatch(cfg, attempt) ==
  IF attempt > cfg.maxRetries THEN "throw" ELSE "delay"

\* mutant: the result of a successful attempt is not returned, the loop goes on
retryTry_NoReturn(cfg, attempt) ==
  IF attempt + 1 <= cfg.maxRetries + 1 THEN "next" ELSE "return"

\* The try block of executeWithRetry after operation() resolved.
retryTry(cfg, attempt) == "return"

OpValues == {"a", "b"}    \* what an operation resolves with
OpErrors == {"e1", "e2"}  \* what an operation rejects with

\* ------------------------------------------------------ IdempotencyManager
idempotencyTtlMs == 1     \* config.idempotencyTtlMs
enableIdempotency == TRUE \* config.enableIdempotency
Ids == {"m1", "m2"}       \* message ids

NoRecord == [present |-> FALSE]
Undefined == [kind |-> "undefined"]

\* mutant: a record expires as soon as its age reaches the TTL
isExpired_AtTtl(rec, t) == t - rec.timestamp >= idempotencyTtlMs

isExpired(rec, t) == t - rec.timestamp > idempotencyTtlMs

\* mutant: isDuplicate leaves an expired record in the map
isDuplicate_KeepExpired(recs, id, t) ==
  IF ~recs[id].present THEN [dup |-> FALSE, recs |-> recs]
  ELSE IF isExpired(recs[id], t)
       THEN [dup |-> FALSE, recs |-> recs]
       ELSE [dup |-> TRUE, recs |-> recs]

\* isDuplicate(id): its value, and the map after it (an expired record is deleted)
\* mutant: isDuplicate that refreshes the timestamp of a live record
isDuplicate_Touch(recs, id, t) ==
  IF ~recs[id].present THEN [dup |-> FALSE, recs |-> recs]
  ELSE IF isExpired(recs[id], t)
       THEN [dup |-> FALSE, recs |-> [recs EXCEPT ![id] = NoRecord]]
       ELSE [dup |-> TRUE, recs |-> [recs EXCEPT ![id].timestamp = t]]

isDuplicate(recs, id, t) ==
  IF ~recs[id].present THEN [dup |-> FALSE, recs |-> recs]
  ELSE IF isExpired(recs[id], t)
       THEN [dup |-> FALSE, recs |-> [recs EXCEPT ![id] = NoRecord]]
       ELSE [dup |-> TRUE, recs |-> recs]

getResult(recs, id, t) ==
  IF ~recs[id].present \/ isExpired(recs[id], t) \/ ~recs[id].completed
  THEN Undefined
  ELSE recs[id].result

\* mutant: markInProgress leaves a completed record as it is
markInProgress_KeepCompleted(recs, id, t) ==
  IF recs[id].present /\ recs[id].completed THEN recs
  ELSE [recs EXCEPT ![id] = [present |-> TRUE, timestamp |-> t, completed |-> FALSE,
                             result |-> Undefined]]

markInProgress(recs, id, t) ==
  [recs EXCEPT ![id] = [present |-> TRUE, timestamp |-> t, completed |-> FALSE,
                        result |-> Undefined]]

\* mutant: markCompleted that stores nothing
markCompleted_NoStore(recs, id, result) == recs

markCompleted(recs, id, result) ==
  IF recs[id].present
  THEN [recs EXCEPT ![id].completed = TRUE, ![id].result = result]
  ELSE recs

\* mutant: remove that leaves the record in place
remove_Noop(recs, id) == recs

\* mutant: remove that deletes only a completed record
remove_OnlyCompleted(recs, id) ==
  IF recs[id].present /\ recs[id].completed THEN [recs EXCEPT ![id] = NoRecord] ELSE recs

remove(recs, id) == [recs EXCEPT ![id] = NoRecord]

cleanup(recs, t) ==
  [id \in DOMAIN recs |->
     IF recs[id].present /\ t - recs[id].timestamp > idempotencyTtlMs
     THEN NoRecord ELSE recs[id]]

clear(recs) == [id \in DOMAIN recs |-> NoRecord]

\* ------------------------------------------------------------- RateLimiter
maxRequestsPerMinute == 1 \* config.rateLimit.maxRequestsPerMinute
windowSizeMs == 1         \* config.rateLimit.windowSizeMs

SeqMin(q) == CHOOSE x \in {q[i] : i \in 1 .. Len(q)} : \A j \in 1 .. Len(q) : x <= q[j]

\* mutant: the limit compared with > instead of >=
checkRateLimit_OffByOne(reqs, t) ==
  LET kept == SelectSeq(reqs, LAMBDA ts : ts > t - windowSizeMs)
      over == Len(kept) > maxRequestsPerMinute /\ Len(kept) > 0
      waitTime == IF over THEN SeqMin(kept) + windowSizeMs - t ELSE 0
  IN IF over /\ waitTime > 0
     THEN [wait |-> waitTime, requests |-> kept]
     ELSE [wait |-> 0, requests |-> Append(kept, t)]

\* The synchronous part of checkRateLimit(): the window after pruning, and
\* either the time to wait (wait > 0) or the window with `t` appended (wait = 0).
\* mutant: the timestamp is recorded before the wait as well
checkRateLimit_PushBeforeWait(reqs, t) ==
  LET kept == SelectSeq(reqs, LAMBDA ts : ts > t - windowSizeMs)
      over == Len(kept) >= maxRequestsPerMinute /\ Len(kept) > 0
      waitTime == IF over THEN SeqMin(kept) + windowSizeMs - t ELSE 0
  IN IF over /\ waitTime > 0
     THEN [wait |-> waitTime, requests |-> Append(kept, t)]
     ELSE [wait |-> 0, requests |-> Append(kept, t)]

checkRateLimit(reqs, t) ==
  LET kept == SelectSeq(reqs, LAMBDA ts : ts > t - windowSizeMs)
      over == Len(kept) >= maxRequestsPerMinute /\ Len(kept) > 0
      waitTime == IF over THEN SeqMin(kept) + windowSizeMs - t ELSE 0
  IN IF over /\ waitTime > 0
     THEN [wait |-> waitTime, requests |-> kept]
     ELSE [wait |-> 0, requests |-> Append(kept, t)]

\* mutant: after the wait the caller is admitted without a second look
recheck_AdmitAfterWait(reqs, t) == [wait |-> 0, requests |-> Append(reqs, t)]

\* `return this.checkRateLimit()` after the wait: the whole check runs again
recheck(reqs, t) == checkRateLimit(reqs, t)

\* ------------------------------------------------------------ EmailService
MaxSends == 2             \* sendEmail is called at most MaxSends times
Callers == {1, 2}         \* overlapping callers of sendEmail

\* EmailSendResult values
Success(p, n) == [success |-> TRUE, messageId |-> <<p, n>>, error |-> "none"]
SoftFailure(p) == [success |-> FALSE, messageId |-> <<>>, error |-> "declined"]
Failure(e) == [success |-> FALSE, messageId |-> <<>>, error |-> e]
ProviderError(p) == IF p = 0 THEN "provider 0 unavailable" ELSE "provider 1 unavailable"
AllFailedError == "All providers failed"
BreakerOpenError == "Circuit breaker is OPEN - operation rejected"

\* mutant: a success of a fallback provider leaves the preferred index alone
nextPrimary_Keep(primary, p) == primary

\* primaryProviderIndex after provider p succeeded
nextPrimary(primary, p) == IF p # primary THEN p ELSE primary

\* The for loop of sendWithFallback from index i, up to the next call of a
\* provider or to the end of the loop: providers whose breaker is OPEN are
\* skipped; le is lastError.  `eligible` collects the skipped providers whose
\* reset timeout had elapsed, `visited` the providers the loop came to, in order.
RECURSIVE fallbackScan(_, _, _, _, _)
\* mutant: skipping a provider counts as a failure of its breaker
fallbackScan_SkipCountsFailure(cbs, primary, i, le, t) ==
  IF i >= NumProviders
  THEN [stop |-> "end", i |-> i, p |-> 0, cbs |-> cbs, lastError |-> le,
        skipped |-> {}, eligible |-> {}, visited |-> <<>>]
  ELSE LET p == (primary + i) % NumProviders
       IN IF cbs[p].state = "OPEN"
          THEN LET rest == fallbackScan([cbs EXCEPT ![p] = onFailure(@, t)],
                                        primary, i + 1, le, t)
               IN [rest EXCEPT !.skipped = @ \cup {p},
                               !.visited = <<p>> \o @,
                               !.eligible = @ \cup (IF shouldAttemptReset(cbs[p], t)
                                                    THEN {p} ELSE {})]
          ELSE LET g == executeGate(cbs[p], t)
               IN IF g.rejected
                  THEN [fallbackScan(cbs, primary, i + 1, BreakerOpenError, t)
                          EXCEPT !.visited = <<p>> \o @]
                  ELSE [stop |-> "call", i |-> i, p |-> p,
                        cbs |-> [cbs EXCEPT ![p] = g.cb], lastError |-> le,
                        skipped |-> {}, eligible |-> {}, visited |-> <<p>>]

fallbackScan(cbs, primary, i, le, t) ==
  IF i >= NumProviders
  THEN [stop |-> "end", i |-> i, p |-> 0, cbs |-> cbs, lastError |-> le,
        skipped |-> {}, eligible |-> {}, visited |-> <<>>]
  ELSE LET p == (primary + i) % NumProviders
       IN IF cbs[p].state = "OPEN"
          THEN LET rest == fallbackScan(cbs, primary, i + 1, le, t)
               IN [rest EXCEPT !.skipped = @ \cup {p},
                               !.visited = <<p>> \o @,
                               !.eligible = @ \cup (IF shouldAttemptReset(cbs[p], t)
                                                    THEN {p} ELSE {})]
          ELSE LET g == executeGate(cbs[p], t)
               IN IF g.rejected
                  THEN [fallbackScan(cbs, primary, i + 1, BreakerOpenError, t)
                          EXCEPT !.visited = <<p>> \o @]
                  ELSE [stop |-> "call", i |-> i, p |-> p,
                        cbs |-> [cbs EXCEPT ![p] = g.cb], lastError |-> le,
                        skipped |-> {}, eligible |-> {}, visited |-> <<p>>]

\* mutant: the sequence number counts the attempts of all providers
newAttempt_CountAll(atts, p) ==
  [provider |-> p, attempt |-> Len(atts) + 1, status |-> "sending"]

\* recordAttempt(emailId, provider): the record appended to attempts[emailId]
newAttempt(atts, p) ==
  [provider |-> p,
   attempt |-> Cardinality({k \in 1 .. Len(atts) : atts[k].provider = p}) + 1,
   status |-> "sending"]

\* setTimeout rounds the backoff delay up to whole clock units
delayMs(d) ==
  IF d.k = "fin" THEN (d.v + 2 * JitterSteps - 1) \div (2 * JitterSteps) ELSE 0

\* A sendEmail call that is not running; result is what the last call returned.
\* The fields after `result` are history: cached (answered from the cache),
\* nDeliv (successful provider calls of this send), ov (overlapped another send
\* of the same id), expect (sequential predecessor's outcome, if still cached),
\* prevFail (the last finished send of the id had failed terminally),
\* termErr (the error the last fallback pass of this send threw, if it threw),
\* considered (the providers the current or last fallback pass came to, in order).
NoResult == [kind |-> "none"]
IdleCall ==
  [pc |-> "idle", id |-> "m1", attempt |-> 0, i |-> 0, p |-> 0, att |-> 0,
   lastError |-> "none", carry |-> Undefined, wake |-> 0, result |-> NoResult,
   cached |-> FALSE, nDeliv |-> 0, ov |-> FALSE, expect |-> Undefined,
   prevFail |-> FALSE, termErr |-> "none", considered |-> <<>>]

\* mutant: sendEmail without its catch block
sendSettle_NoCatch(carry) ==
  IF carry.kind = "value" THEN [kind |-> "resolved", value |-> carry.x]
  ELSE [kind |-> "rejected", error |-> carry.x]

\* How sendEmail settles once executeWithRetry returned (value) or threw (error).
sendSettle(carry) ==
  IF carry.kind = "value" THEN [kind |-> "resolved", value |-> carry.x]
  ELSE [kind |-> "resolved", value |-> Failure(carry.x)]

NoHistory == [last |-> "none", outcome |-> Undefined, ts |-> 0, cleared |-> FALSE]

\* --------------------------------------------------------------- variables
VARIABLES
  now,              \* Date.now()
  circuitBreakers,  \* EmailService.circuitBreakers: provider -> breaker
  cbPc,             \* SpecCB: client -> "idle" | "op" (wrapped operation in flight)
  consec,           \* SpecCB history: failed operations since the last success/reset
  records,          \* IdempotencyManager.records: id -> record
  requests,         \* RateLimiter.requests: timestamps, in push order
  primaryProviderIndex,  \* EmailService.primaryProviderIndex
  attempts,         \* EmailService.attempts: id -> sequence of attempt records
  calls,            \* caller -> the sendEmail call it runs (its position and locals)
  started,          \* number of sendEmail calls made so far
  nDeliveries,      \* number of deliveries the providers have made (receipt serial)
  hist,             \* history: id -> how the last finished send of the id ended
  retry,            \* SpecRetry: one run of executeWithRetry
  calc,             \* SpecDelay: one application of calculateDelay
  ev,               \* history: what the last step did, where a claim asks
  hoSucc,           \* SpecCB history: successes since HALF_OPEN was entered
  rlCalls,          \* SpecRL: caller -> the checkRateLimit call it runs
  admits,           \* SpecRL history: the timestamps checkRateLimit recorded
  queue,            \* EmailQueue.queue: the items, in array order
  processing,       \* EmailQueue.processing
  loops,            \* EmailQueue.startProcessing: loop -> its position and item
  qNow,             \* SpecQ: Date.now() in units of 100 ms
  enqueued,         \* SpecQ history: the items enqueued so far, by serial
  qLog,             \* SpecQ history: the processor invocations, in order
  qBurst,           \* SpecQ history: "open" while all enqueues came back to back
  service           \* the EmailService instance: whether it was constructed, and
                    \* its providers array

svcVars == <<records, requests, primaryProviderIndex, attempts, calls, started,
             nDeliveries, hist, service>>
rlVars == <<rlCalls, admits>>
qVars == <<queue, processing, loops, qNow, enqueued, qLog, qBurst>>
vars == <<now, circuitBreakers, cbPc, consec, records, requests, primaryProviderIndex,
          attempts, calls, started, nDeliveries, hist, retry, calc, ev, hoSucc,
          rlCalls, admits, queue, processing, loops, qNow, enqueued, qLog,
          qBurst, service>>

NoEvent == [kind |-> "none"]

\* executeWithRetry entered with configuration cfg: attempt = 1, nothing invoked.
\* log holds the outcome of every invocation of the operation, in order.
RetryStart(cfg) ==
  [cfg |-> cfg, pc |-> "attempt", attempt |-> 1, log |-> <<>>,
   result |-> [kind |-> "none"], delay |-> Fin(0)]

CalcStart(cfg, attempt, r) ==
  [cfg |-> cfg, attempt |-> attempt, r |-> r, pc |-> "call", result |-> Fin(0)]

ServiceRetryConfig ==
  [maxRetries |-> 1, baseDelay |-> 1, maxDelay |-> 2, backoffMultiplier |-> 2]

\* mutant: a constructor that accepts any provider list
construct_NoCheck(list) == [status |-> "built", providers |-> list]

\* new EmailService(providers, config): it throws for an empty list, and
\* otherwise keeps the list as this.providers
construct(list) ==
  IF Len(list) = 0
  THEN [status |-> "threw", providers |-> <<>>]
  ELSE [status |-> "built", providers |-> list]

\* The instance the specifications of the service start from
InitBuilt == service = construct(<<0, 1>>)

InitService ==
  /\ now = 0
  /\ circuitBreakers = [p \in Providers |-> NewBreaker]
  /\ records = [id \in Ids |-> NoRecord]
  /\ requests = <<>>
  /\ primaryProviderIndex = 0
  /\ attempts = [id \in Ids |-> <<>>]
  /\ calls = [c \in Callers |-> IdleCall]
  /\ started = 0
  /\ nDeliveries = 0
  /\ hist = [id \in Ids |-> NoHistory]
  /\ ev = NoEvent

InitCbIdle ==
  /\ cbPc = [c \in CbClients |-> "idle"]
  /\ consec = 0
  /\ hoSucc = 0

\* A caller that has not called checkRateLimit yet.  pc: "idle", "wait" (in
\* the delay) or "done" (returned).  History of the call: start (when it was
\* made), full and oldest (whether the window held maxRequestsPerMinute
\* recorded timestamps then, and the oldest of them), waited, admitted (when
\* it returned).
IdleRlCall == [pc |-> "idle", wake |-> 0, start |-> 0, full |-> FALSE, oldest |-> 0,
               waited |-> FALSE, admitted |-> 0]
RlCallers == {1, 2, 3}    \* concurrent callers of checkRateLimit
MaxRlCalls == 4           \* checkRateLimit is called at most MaxRlCalls times

\* -------------------------------------------------------------- EmailQueue
\* Queue time (qNow) is counted in units of 100 ms.
QMaxTime == 70            \* the queue clock runs from 0 to QMaxTime
MaxEnqueue == 2           \* enqueue is called at most MaxEnqueue times
ShortPause == 1           \* delay(100) between two items
IdlePause == 10           \* delay(1000) when no item is ready
RetryUnit == 10           \* the 1000 ms factor of the retry backoff
MaxAttempts == 3          \* attempts after which a failing item is dropped
QPriorities == {0, 1, 5}  \* priorities given to enqueue
QIds == <<"m1", "m2">>    \* message ids given to enqueue, in order of first use
LoopIds == {1, 2}         \* activations of startProcessing that could coexist

\* A processing loop that is not running.  pc: "none", "proc" (awaiting the
\* processor called on `item`) or "pause" (in a delay that ends at `wake`).
IdleLoop == [pc |-> "none", item |-> 0, wake |-> 0]

\* The QueueItem object enqueue creates.  Items live in `enqueued` under their
\* serial number; `queue` and the loops refer to them by that number, as the
\* array and the loop's local refer to the object.  failedAt is history: the
\* time at which the last processing of the item that was rescheduled failed.
newItem(id, priority) ==
  [id |-> id, priority |-> priority, attempts |-> 0, status |-> "pending",
   nextAttempt |-> 0, failedAt |-> 0]

\* The array after enqueue inserted item n of the given priority
insertItem_BeforeEqual(q, heap, n, priority) ==
  LET lower == {i \in 1 .. Len(q) : heap[q[i]].priority <= priority}
  IN IF lower = {}
     THEN Append(q, n)
     ELSE LET at == CHOOSE i \in lower : \A j \in lower : i <= j
          IN SubSeq(q, 1, at - 1) \o <<n>> \o SubSeq(q, at, Len(q))

insertItem(q, heap, n, priority) ==
  LET lower == {i \in 1 .. Len(q) : heap[q[i]].priority < priority}
  IN IF lower = {}
     THEN Append(q, n)
     ELSE LET at == CHOOSE i \in lower : \A j \in lower : i <= j
          IN SubSeq(q, 1, at - 1) \o <<n>> \o SubSeq(q, at, Len(q))

\* getNextItem(): the first ready item of the array, 0 if there is none
getNextItem_IgnoreSchedule(q, heap, t) ==
  LET ready == {i \in 1 .. Len(q) : heap[q[i]].status \in {"pending", "retrying"}}
  IN IF ready = {} THEN 0
     ELSE q[CHOOSE i \in ready : \A j \in ready : i <= j]

getNextItem(q, heap, t) ==
  LET ready == {i \in 1 .. Len(q) :
                  \/ heap[q[i]].status = "pending"
                  \/ heap[q[i]].status = "retrying" /\ heap[q[i]].nextAttempt <= t}
  IN IF ready = {} THEN 0
     ELSE q[CHOOSE i \in ready : \A j \in ready : i <= j]

\* removeItem(emailId): the array without its first item of that message id
removeItem(q, heap, id) ==
  LET hits == {i \in 1 .. Len(q) : heap[q[i]].id = id}
  IN IF hits = {} THEN q
     ELSE LET at == CHOOSE i \in hits : \A j \in hits : i <= j
          IN SubSeq(q, 1, at - 1) \o SubSeq(q, at + 1, Len(q))

RECURSIVE Pow2(_)
Pow2(n) == IF n <= 0 THEN 1 ELSE 2 * Pow2(n - 1)

\* mutant: the loop gives up the processing flag when it pauses because
\* nothing is ready
loopTop_FlagOffInPause(q, heap, log, t) ==
  IF q = <<>>
  THEN [ended |-> TRUE, loop |-> IdleLoop, heap |-> heap, log |-> log]
  ELSE LET n == getNextItem(q, heap, t)
       IN IF n = 0
          THEN [ended |-> TRUE,
                loop |-> [pc |-> "pause", item |-> 0, wake |-> t + IdlePause],
                heap |-> heap, log |-> log]
          ELSE [ended |-> FALSE,
                loop |-> [pc |-> "proc", item |-> n, wake |-> 0],
                heap |-> [heap EXCEPT ![n].status = "sending", ![n].attempts = @ + 1],
                log |-> Append(log, n)]

\* The while loop of startProcessing from its test up to the next await: the
\* loop ends, pauses because nothing is ready, or calls the processor.
loopTop(q, heap, log, t) ==
  IF q = <<>>
  THEN [ended |-> TRUE, loop |-> IdleLoop, heap |-> heap, log |-> log]
  ELSE LET n == getNextItem(q, heap, t)
       IN IF n = 0
          THEN [ended |-> FALSE,
                loop |-> [pc |-> "pause", item |-> 0, wake |-> t + IdlePause],
                heap |-> heap, log |-> log]
          ELSE [ended |-> FALSE,
                loop |-> [pc |-> "proc", item |-> n, wake |-> 0],
                heap |-> [heap EXCEPT ![n].status = "sending", ![n].attempts = @ + 1],
                log |-> Append(log, n)]

\* getStats()
getStats(q, heap) ==
  LET count(st) == Cardinality({i \in 1 .. Len(q) : heap[q[i]].status = st})
  IN [total |-> Len(q), pending |-> count("pending"), sending |-> count("sending"),
      retrying |-> count("retrying"), failed |-> count("failed")]

InitRetryIdle ==
  /\ retry = RetryStart(ServiceRetryConfig)
  /\ calc = CalcStart(ServiceRetryConfig, 1, 0)

InitRlIdle ==
  /\ rlCalls = [c \in RlCallers |-> IdleRlCall]
  /\ admits = <<>>

InitQueueIdle ==
  /\ queue = <<>>
  /\ processing = FALSE
  /\ loops = [l \in LoopIds |-> IdleLoop]
  /\ qNow = 0
  /\ enqueued = <<>>
  /\ qLog = <<>>
  /\ qBurst = "open"

InitParts == InitService /\ InitCbIdle /\ InitRetryIdle /\ InitRlIdle /\ InitQueueIdle
InitCommon == InitParts /\ InitBuilt

\* ------------------------------------------------------------------ SpecCB
\* SpecCB drives the breaker of the first provider.
cbT == circuitBreakers[0]
setCbT(cb) == [circuitBreakers EXCEPT ![0] = cb]

\* execute() up to the await of the wrapped operation.
ExecuteBegin(c) ==
  /\ cbPc[c] = "idle"
  /\ LET g == executeGate(cbT, now)
     IN /\ circuitBreakers' = setCbT(g.cb)
        /\ cbPc' = [cbPc EXCEPT ![c] = IF g.rejected THEN "idle" ELSE "op"]
        /\ ev' = [kind |-> "cbBegin", client |-> c, wasOpen |-> cbT.state = "OPEN",
                  sinceFailure |-> now - cbT.lastFailureTime, rejected |-> g.rejected]
        /\ hoSucc' = IF cbT.state = "OPEN" /\ ~g.rejected THEN 0 ELSE hoSucc
  /\ UNCHANGED <<now, consec, retry, calc, svcVars, rlVars, qVars>>

\* The wrapped operation resolves (ok) or rejects (~ok); execute() continues.
ExecuteEnd(c, ok) ==
  /\ cbPc[c] = "op"
  /\ circuitBreakers' = setCbT(IF ok THEN onSuccess(cbT) ELSE onFailure(cbT, now))
  /\ cbPc' = [cbPc EXCEPT ![c] = "idle"]
  /\ consec' = IF ok THEN 0 ELSE Min(consec + 1, failureThreshold)
  /\ ev' = [kind |-> "cbEnd", client |-> c, ok |-> ok, before |-> cbT]
  /\ hoSucc' = IF ~ok THEN 0
               ELSE IF cbT.state = "HALF_OPEN" THEN hoSucc + 1 ELSE hoSucc
  /\ UNCHANGED <<now, retry, calc, svcVars, rlVars, qVars>>

\* A new breaker is constructed for the next test, as beforeEach does, once
\* the calls on the old one have settled.
NewTestBreaker(timeout) ==
  /\ \A c \in CbClients : cbPc[c] = "idle"
  /\ cbT # newCircuitBreaker(timeout)
  /\ circuitBreakers' = setCbT(newCircuitBreaker(timeout))
  /\ consec' = 0
  /\ ev' = NoEvent
  /\ hoSucc' = 0
  /\ UNCHANGED <<now, cbPc, retry, calc, svcVars, rlVars, qVars>>

ManualReset ==
  /\ circuitBreakers' = setCbT(reset(cbT))
  /\ consec' = 0
  /\ ev' = [kind |-> "cbReset", before |-> cbT]
  /\ hoSucc' = 0
  /\ UNCHANGED <<now, cbPc, retry, calc, svcVars, rlVars, qVars>>

Tick ==
  /\ now < MaxTime
  /\ now' = now + 1
  /\ ev' = NoEvent
  /\ UNCHANGED <<circuitBreakers, cbPc, consec, retry, calc, svcVars, hoSucc, rlVars, qVars>>

NextCB ==
  \/ \E c \in CbClients : ExecuteBegin(c)
  \/ \E c \in CbClients : ExecuteEnd(c, TRUE)
  \/ \E c \in CbClients : ExecuteEnd(c, FALSE)
  \/ ManualReset
  \/ \E timeout \in TestResetTimeouts : NewTestBreaker(timeout)
  \/ Tick

SpecCB == InitCommon /\ [][NextCB]_vars

\* C1: after failureThreshold consecutive failing execute() calls the breaker
\* is OPEN, and an execute() begun while it is OPEN and resetTimeoutMs has not
\* elapsed since the last failure is rejected without invoking the operation.
C1_OpensAndRejects ==
  /\ (ev.kind = "cbEnd" /\ ~ev.ok /\ consec >= failureThreshold)
        => cbT.state = "OPEN"
  /\ (ev.kind = "cbBegin" /\ ev.wasOpen /\ ev.sinceFailure < cbT.resetTimeoutMs)
        => (ev.rejected /\ cbPc[ev.client] = "idle" /\ cbT.state = "OPEN")

C1_Witness ==
  /\ ev.kind = "cbBegin" /\ ev.wasOpen /\ ev.rejected
  /\ consec >= failureThreshold

\* C34: an execute() rejected by the OPEN breaker leaves the breaker's state,
\* failure count, success count and last-failure time as they were, and
\* execute() rejects only while less than resetTimeoutMs has passed since the
\* last failure: however many calls were rejected, the first call made
\* resetTimeoutMs after the last failure is let through as the half-open trial.
C34_RejectionFrame ==
  [][ev'.kind = "cbBegin"
       => /\ ev'.rejected
            => /\ circuitBreakers' = circuitBreakers
               /\ cbT.state = "OPEN"
               /\ now - cbT.lastFailureTime < cbT.resetTimeoutMs
               /\ cbPc'[ev'.client] = "idle"
          /\ (cbT.state = "OPEN" /\ now - cbT.lastFailureTime >= cbT.resetTimeoutMs)
            => /\ ~ev'.rejected
               /\ cbT' = [cbT EXCEPT !.state = "HALF_OPEN"]
               /\ cbPc'[ev'.client] = "op"]_vars

\* C34 witness: a call is rejected at the last moment before the reset
\* timeout has elapsed
C34_Witness ==
  /\ ev.kind = "cbBegin"
  /\ ev.rejected
  /\ ev.sinceFailure = cbT.resetTimeoutMs - 1
  /\ ev.sinceFailure > 0
  /\ cbT.state = "OPEN"

\* C35: a CLOSED breaker has counted fewer failures than failureThreshold,
\* also while several execute() calls are in flight on it, and every success
\* leaves the failure count at 0.
C35_ClosedBelowThreshold ==
  /\ cbT.state = "CLOSED" => cbT.failureCount < failureThreshold
  /\ (ev.kind = "cbEnd" /\ ev.ok) => cbT.failureCount = 0

\* C35 witness: with another call still in flight, a success resets the
\* count of a CLOSED breaker that was one failure short of opening
C35_Witness ==
  /\ ev.kind = "cbEnd"
  /\ ev.ok
  /\ ev.before.state = "CLOSED"
  /\ ev.before.failureCount = failureThreshold - 1
  /\ cbT.state = "CLOSED"
  /\ \E c \in CbClients : cbPc[c] = "op"

\* C26: reset() leaves the breaker CLOSED with failure count 0 and half-open
\* success count 0, whatever it was before, and a CLOSED breaker opens only
\* on a failure that is at least the failureThreshold-th in a row since the
\* last success or reset.
C26_ResetCloses ==
  [][/\ ev'.kind = "cbReset"
          => /\ cbT'.state = "CLOSED"
             /\ cbT'.failureCount = 0
             /\ cbT'.successCount = 0
     /\ (cbT.state = "CLOSED" /\ cbT'.state = "OPEN")
          => consec' >= failureThreshold]_vars

\* reset() was called on an OPEN breaker.
C26_Witness ==
  /\ ev.kind = "cbReset"
  /\ ev.before.state = "OPEN"
  /\ ev.before.failureCount >= failureThreshold

\* C14: when the wrapped operation of a HALF_OPEN breaker fails, the breaker
\* is OPEN right after that failure, whatever its failure count.
C14_HalfOpenFailureOpens ==
  (ev.kind = "cbEnd" /\ ~ev.ok /\ ev.before.state = "HALF_OPEN")
    => /\ cbT.state = "OPEN"
       /\ cbT.lastFailureTime = now

C14_Witness ==
  /\ ev.kind = "cbEnd" /\ ~ev.ok /\ ev.before.state = "HALF_OPEN"
  /\ ev.before.failureCount + 1 < failureThreshold
  /\ cbT.state = "OPEN"

InFlight(o) == calls[o].pc # "idle"

\* executeWithRetry after `await operation()` for call record k whose pass
\* ended with `carry` (a value or an error); r is Math.random().
retryAfterPass(k, carry, t, r) ==
  LET go == IF carry.kind = "value" THEN retryTry(ServiceRetryConfig, k.attempt)
                                    ELSE retryCatch(ServiceRetryConfig, k.attempt)
      k1 == [k EXCEPT !.i = 0, !.p = 0, !.att = 0, !.lastError = "none",
                      !.termErr = IF carry.kind = "error" THEN carry.x ELSE "none"]
  IN CASE go = "return" -> [k1 EXCEPT !.pc = "sendResume", !.carry = carry]
       [] go = "throw" -> [k1 EXCEPT !.pc = "sendResume", !.carry = carry]
       [] go = "delay" ->
            [k1 EXCEPT !.pc = "retryDelay", !.carry = Undefined,
                       !.wake = t + delayMs(calculateDelay(ServiceRetryConfig, k.attempt, r))]
       [] go = "next" -> [k1 EXCEPT !.pc = "retryDelay", !.carry = Undefined, !.wake = t]

\* sendWithFallback from loop index i with lastError le, for call record k of
\* caller c, up to the call of the next provider (recordAttempt included) or
\* to the throw that ends the pass.
ContinueFallback(c, k, i, le, r) ==
  LET sc == fallbackScan(circuitBreakers, primaryProviderIndex, i, le, now)
      err == IF sc.lastError = "none" THEN AllFailedError ELSE sc.lastError
  IN /\ circuitBreakers' = sc.cbs
     /\ attempts' = IF sc.stop = "call"
                    THEN [attempts EXCEPT ![k.id] = Append(@, newAttempt(@, sc.p))]
                    ELSE attempts
     /\ calls' = [calls EXCEPT ![c] =
           IF sc.stop = "call"
           THEN [k EXCEPT !.pc = "provider", !.i = sc.i, !.p = sc.p,
                          !.att = Len(attempts[k.id]) + 1, !.lastError = sc.lastError,
                          !.carry = Undefined, !.considered = @ \o sc.visited]
           ELSE retryAfterPass([k EXCEPT !.considered = @ \o sc.visited],
                               [kind |-> "error", x |-> err], now, r)]
     /\ ev' = IF sc.skipped = {} THEN NoEvent
               ELSE [kind |-> IF sc.eligible = {} THEN "skip" ELSE "skipEligible",
                     call |-> c, skipped |-> sc.skipped, eligible |-> sc.eligible,
                     before |-> circuitBreakers, nAtt |-> Len(attempts[k.id])]

\* sendEmail(message with this id), up to `await this.rateLimiter.checkRateLimit()`.
SendStart(c, id) ==
  /\ calls[c].pc = "idle"
  /\ started < MaxSends
  /\ started' = started + 1
  /\ LET d == IF enableIdempotency THEN isDuplicate(records, id, now)
                                   ELSE [dup |-> FALSE, recs |-> records]
         cachedResult == IF d.dup THEN getResult(d.recs, id, now) ELSE Undefined
         h == hist[id]
         others == {o \in Callers \ {c} : InFlight(o) /\ calls[o].id = id}
         fresh == [IdleCall EXCEPT
                     !.id = id,
                     !.expect = IF h.last = "ok" /\ ~h.cleared /\ now - h.ts <= idempotencyTtlMs
                                THEN h.outcome ELSE Undefined,
                     !.prevFail = (h.last = "fail"),
                     !.ov = (others # {})]
     IN IF cachedResult # Undefined
        THEN /\ calls' = [calls EXCEPT ![c] =
                            [fresh EXCEPT !.cached = TRUE,
                                          !.result = [kind |-> "resolved", value |-> cachedResult]]]
             /\ records' = d.recs
             /\ UNCHANGED <<requests, hist>>
        ELSE LET rl == checkRateLimit(requests, now)
             IN /\ records' = IF enableIdempotency THEN markInProgress(d.recs, id, now)
                                                   ELSE d.recs
                /\ requests' = rl.requests
                /\ calls' = [o \in Callers |->
                       IF o = c
                       THEN [fresh EXCEPT !.pc = IF rl.wait > 0 THEN "rlWait" ELSE "rlDone",
                                          !.wake = IF rl.wait > 0 THEN now + rl.wait ELSE 0]
                       ELSE IF o \in others THEN [calls[o] EXCEPT !.ov = TRUE]
                       ELSE calls[o]]
                /\ hist' = [hist EXCEPT ![id].ts = now, ![id].cleared = FALSE]
  /\ ev' = NoEvent
  /\ UNCHANGED <<now, circuitBreakers, primaryProviderIndex, attempts, nDeliveries,
                 cbPc, consec, retry, calc, hoSucc, rlVars, qVars, service>>

\* The timer of checkRateLimit fires and checkRateLimit runs again.
RateLimitWake(c) ==
  /\ calls[c].pc = "rlWait"
  /\ now >= calls[c].wake
  /\ LET rl == recheck(requests, now)
     IN /\ requests' = rl.requests
        /\ calls' = [calls EXCEPT ![c].pc = IF rl.wait > 0 THEN "rlWait" ELSE "rlDone",
                                  ![c].wake = IF rl.wait > 0 THEN now + rl.wait ELSE 0]
  /\ ev' = NoEvent
  /\ UNCHANGED <<now, circuitBreakers, records, primaryProviderIndex, attempts, started,
                 nDeliveries, hist, cbPc, consec, retry, calc, hoSucc, rlVars, qVars, service>>

\* checkRateLimit resolved: executeWithRetry starts attempt 1 and the first
\* fallback pass runs up to its first provider call.
BeginPass(c, r) ==
  /\ calls[c].pc = "rlDone"
  /\ ContinueFallback(c, [calls[c] EXCEPT !.attempt = 1, !.considered = <<>>], 0, "none", r)
  /\ UNCHANGED <<now, records, requests, primaryProviderIndex, started, nDeliveries,
                 hist, cbPc, consec, retry, calc, hoSucc, rlVars, qVars, service>>

\* provider.sendEmail settles: it resolves with a receipt ("ok"), resolves with
\* success = false ("soft") or rejects ("throw"); updateAttempt records it and
\* CircuitBreaker.execute resumes with onSuccess / onFailure.
ProviderSettle(c, out) ==
  /\ calls[c].pc = "provider"
  /\ LET k == calls[c]
         inner == CASE out = "ok" -> [kind |-> "value", x |-> Success(k.p, nDeliveries + 1)]
                    [] out = "soft" -> [kind |-> "value", x |-> SoftFailure(k.p)]
                    [] out = "throw" -> [kind |-> "error", x |-> ProviderError(k.p)]
     IN /\ attempts' = [attempts EXCEPT ![k.id][k.att].status =
                           IF out = "throw" THEN "failed" ELSE "sent"]
        /\ nDeliveries' = IF out = "ok" THEN nDeliveries + 1 ELSE nDeliveries
        /\ circuitBreakers' = [circuitBreakers EXCEPT ![k.p] =
                                 IF out = "throw" THEN onFailure(@, now) ELSE onSuccess(@)]
        /\ calls' = [calls EXCEPT ![c].pc = "fbResume", ![c].carry = inner,
                                  ![c].nDeliv = IF out = "ok" THEN @ + 1 ELSE @]
  /\ ev' = NoEvent
  /\ UNCHANGED <<now, records, requests, primaryProviderIndex, started,
                 hist, cbPc, consec, retry, calc, hoSucc, rlVars, qVars, service>>

\* sendWithFallback resumes after `await circuitBreaker.execute(...)`.
FallbackResume(c, r) ==
  /\ calls[c].pc = "fbResume"
  /\ LET k == calls[c]
     IN IF k.carry.kind = "value" /\ k.carry.x.success
        THEN /\ primaryProviderIndex' = nextPrimary(primaryProviderIndex, k.p)
             /\ calls' = [calls EXCEPT ![c] = retryAfterPass(k, k.carry, now, r)]
             /\ ev' = NoEvent
             /\ UNCHANGED <<circuitBreakers, attempts>>
        ELSE /\ ContinueFallback(c, k, k.i + 1,
                                 IF k.carry.kind = "error" THEN k.carry.x ELSE k.lastError, r)
             /\ UNCHANGED primaryProviderIndex
  /\ UNCHANGED <<now, records, requests, started, nDeliveries, hist, cbPc, consec,
                 retry, calc, hoSucc, rlVars, qVars, service>>

\* The backoff timer fires: the next attempt runs a new fallback pass.
RetryWakeSend(c, r) ==
  /\ calls[c].pc = "retryDelay"
  /\ now >= calls[c].wake
  /\ ContinueFallback(c, [calls[c] EXCEPT !.attempt = @ + 1, !.wake = 0,
                                         !.considered = <<>>], 0, "none", r)
  /\ UNCHANGED <<now, records, requests, primaryProviderIndex, started, nDeliveries,
                 hist, cbPc, consec, retry, calc, hoSucc, rlVars, qVars, service>>

\* sendEmail resumes after `await this.retryManager.executeWithRetry(...)`:
\* markCompleted and return, or the catch block: remove and return a failure.
SendResume(c) ==
  /\ calls[c].pc = "sendResume"
  /\ LET k == calls[c]
         ok == k.carry.kind = "value"
     IN /\ records' = IF ~enableIdempotency THEN records
                      ELSE IF ok THEN markCompleted(records, k.id, k.carry.x)
                      ELSE remove(records, k.id)
        /\ calls' = [calls EXCEPT ![c].pc = "idle", ![c].carry = Undefined,
                                  ![c].attempt = 0, ![c].result = sendSettle(k.carry)]
        /\ hist' = [hist EXCEPT ![k.id].last = IF ok THEN "ok" ELSE "fail",
                                ![k.id].outcome = IF ok THEN k.carry.x ELSE Undefined]
  /\ ev' = NoEvent
  /\ UNCHANGED <<now, circuitBreakers, requests, primaryProviderIndex, attempts, started,
                 nDeliveries, cbPc, consec, retry, calc, hoSucc, rlVars, qVars, service>>

\* EmailService.clearIdempotencyCache()
ClearIdempotencyCache ==
  /\ records' = clear(records)
  /\ hist' = [id \in Ids |-> [hist[id] EXCEPT !.cleared = TRUE]]
  /\ ev' = NoEvent
  /\ UNCHANGED <<now, circuitBreakers, requests, primaryProviderIndex, attempts, calls,
                 started, nDeliveries, cbPc, consec, retry, calc, hoSucc, rlVars, qVars,
                 service>>

\* The setInterval sweep of IdempotencyManager
Cleanup ==
  /\ records' = cleanup(records, now)
  /\ ev' = NoEvent
  /\ UNCHANGED <<now, circuitBreakers, requests, primaryProviderIndex, attempts, calls,
                 started, nDeliveries, hist, cbPc, consec, retry, calc, hoSucc, rlVars, qVars,
                 service>>

\* EmailService.resetCircuitBreakers()
ResetCircuitBreakers ==
  /\ circuitBreakers' = [p \in Providers |-> reset(circuitBreakers[p])]
  /\ ev' = NoEvent
  /\ UNCHANGED <<now, svcVars, cbPc, consec, retry, calc, hoSucc, rlVars, qVars>>

\* One step of the sendEmail call of caller c; the call is made for an id of
\* `ids` and the providers settle with an outcome of `outs`.
SendStep(c, ids, outs) ==
  \/ \E id \in ids : SendStart(c, id)
  \/ RateLimitWake(c)
  \/ \E r \in 0 .. JitterSteps - 1 : BeginPass(c, r)
  \/ \E out \in outs : ProviderSettle(c, out)
  \/ \E r \in 0 .. JitterSteps - 1 : FallbackResume(c, r)
  \/ \E r \in 0 .. JitterSteps - 1 : RetryWakeSend(c, r)
  \/ SendResume(c)

\* Overlapping sends of one message id through providers that deliver or
\* throw, as the providers of the repository do.
Next ==
  \/ \E c \in Callers : SendStep(c, {"m1"}, {"ok", "throw"})
  \/ Tick

Spec == InitCommon /\ [][Next]_vars

\* One caller, so every send finishes before the next one starts; any id,
\* and the administrative operations and the idempotency sweep at any time.
NextSeq ==
  \/ SendStep(1, Ids, {"ok", "throw"})
  \/ ClearIdempotencyCache
  \/ Cleanup
  \/ ResetCircuitBreakers
  \/ Tick

SpecSeq == InitCommon /\ [][NextSeq]_vars

\* One caller and providers that may also resolve with success = false, which
\* the EmailProvider interface allows.
NextSoft ==
  \/ SendStep(1, Ids, {"ok", "soft", "throw"})
  \/ Tick

SpecSoft == InitCommon /\ [][NextSoft]_vars

\* C2: a send never skips a provider whose breaker is OPEN once the reset
\* timeout has elapsed since its last failure; it calls it as a half-open trial.
C2_NoEligibleSkip == ev.kind # "skipEligible"

\* C3: a send that starts after an earlier send of the same id has completed
\* successfully, with the record neither expired nor cleared, returns at once
\* the outcome of that earlier send, from the cache, without calling a provider.
C3_SequentialDuplicate ==
  \A c \in Callers :
    calls[c].expect # Undefined =>
      /\ calls[c].pc = "idle"
      /\ calls[c].cached
      /\ calls[c].result = [kind |-> "resolved", value |-> calls[c].expect]
      /\ calls[c].nDeliv = 0

C3_Witness ==
  \E c \in Callers :
    /\ calls[c].expect # Undefined
    /\ calls[c].expect.success
    /\ calls[c].cached
    /\ started >= 2

\* C33: a sendEmail that returns the cached outcome (the only step that
\* starts a call and leaves every caller where it was) returns the stored
\* result and changes nothing else: no provider is called or delivers, no
\* rate-limiter slot is taken, no attempt is recorded, and the breakers, the
\* primary index and the idempotency records stay as they were.
C33_CacheHitFrame ==
  [][(started' # started /\ \A c \in Callers : calls'[c].pc = calls[c].pc)
       => /\ \E c \in Callers, id \in Ids :
               /\ calls[c].pc = "idle"
               /\ calls'[c].id = id
               /\ calls'[c].cached
               /\ records[id].completed
               /\ calls'[c].result = [kind |-> "resolved", value |-> records[id].result]
          /\ records' = records
          /\ requests' = requests
          /\ attempts' = attempts
          /\ circuitBreakers' = circuitBreakers
          /\ primaryProviderIndex' = primaryProviderIndex
          /\ nDeliveries' = nDeliveries]_vars

\* C33 witness: a send has just returned a cached successful outcome, after
\* an earlier send took a rate-limiter slot and recorded its attempt
C33_Witness ==
  \E c \in Callers :
    /\ calls[c].pc = "idle"
    /\ calls[c].cached
    /\ calls[c].result.kind = "resolved"
    /\ calls[c].result.value.success
    /\ Len(attempts[calls[c].id]) >= 1
    /\ Len(requests) = 1
    /\ started = 2

\* C4: two overlapping sends of one message id deliver the message at most
\* once between them and resolve to the same outcome.
C4_OverlapDeliversOnce ==
  \A c1, c2 \in Callers :
    ( /\ c1 # c2
      /\ calls[c1].id = calls[c2].id
      /\ calls[c1].ov /\ calls[c2].ov
      /\ calls[c1].pc = "idle" /\ calls[c2].pc = "idle"
      /\ calls[c1].result # NoResult /\ calls[c2].result # NoResult )
    => /\ calls[c1].nDeliv + calls[c2].nDeliv <= 1
       /\ calls[c1].result = calls[c2].result

\* C5: the outcome cached in a completed idempotency record is never replaced
\* by a different outcome while the record stays in place.
C5_CachedOutcomeStable ==
  [][\A id \in Ids :
       ( /\ records[id].present /\ records[id].completed
         /\ records'[id].present /\ records'[id].completed
         /\ records'[id].timestamp = records[id].timestamp )
       => records'[id].result = records[id].result]_vars

\* Two sends of one message id, one by each caller: the sends overlap at any
\* of their awaits, or one follows the other.
NextOnce ==
  \/ \E c \in Callers :
        /\ calls[c].pc = "idle" => calls[c].result = NoResult
        /\ SendStep(c, {"m1"}, {"ok", "throw"})
  \/ Tick

SpecOnce == InitCommon /\ [][NextOnce]_vars

\* C36: while no sendEmail call for an id is in flight, the idempotency
\* record of the id is absent or completed, however overlapping sends of the
\* id ended.
C36_NoDanglingMarker ==
  \A id \in Ids :
    (\A c \in Callers : InFlight(c) => calls[c].id # id)
      => (~records[id].present \/ records[id].completed)

\* C36 witness: two overlapping sends of one id have both returned, one with
\* a success and one with a failure, and the record is gone
C36_Witness ==
  \E c1, c2 \in Callers :
    /\ c1 # c2
    /\ calls[c1].id = calls[c2].id
    /\ calls[c1].ov /\ calls[c2].ov
    /\ ~InFlight(c1) /\ ~InFlight(c2)
    /\ calls[c1].result.kind = "resolved" /\ calls[c1].result.value.success
    /\ calls[c2].result.kind = "resolved" /\ ~calls[c2].result.value.success
    /\ ~records[calls[c1].id].present

\* C6: after a send of an id has failed terminally its idempotency record is
\* gone, and the next send of that id is not answered from the cache.
C6_Rollback ==
  /\ \A id \in Ids :
       ( /\ hist[id].last = "fail"
         /\ \A c \in Callers : InFlight(c) => calls[c].id # id )
       => ~records[id].present
  /\ \A c \in Callers : calls[c].prevFail => ~calls[c].cached

C6_Witness ==
  \E c \in Callers :
    /\ calls[c].prevFail
    /\ calls[c].pc = "provider"
    /\ hist[calls[c].id].last = "fail"

\* C7: sendEmail never rejects; a send whose last retry attempt failed has
\* used maxRetries + 1 attempts and resolves to {success: false, error: the
\* message of the error that attempt threw}, and a send whose last attempt
\* succeeded resolves to a successful outcome.
C7_NeverRejects ==
  \A c \in Callers :
    LET k == calls[c]
    IN /\ k.result.kind # "rejected"
       /\ (k.pc = "sendResume" /\ k.carry.kind = "error")
            => /\ k.attempt = ServiceRetryConfig.maxRetries + 1
               /\ k.termErr = k.carry.x
       /\ (k.pc = "idle" /\ k.result # NoResult /\ ~k.cached)
            => /\ k.result.kind = "resolved"
               /\ k.termErr # "none" => k.result.value = Failure(k.termErr)
               /\ k.termErr = "none" => k.result.value.success

C7_Witness ==
  \E c \in Callers :
    /\ calls[c].pc = "idle"
    /\ calls[c].termErr = AllFailedError
    /\ calls[c].result = [kind |-> "resolved", value |-> Failure(AllFailedError)]

\* C23: right after a step that skipped a provider because its breaker was
\* OPEN, that breaker is as it was before the step (state, failure count,
\* last-failure time), the provider is not the one being called, and no
\* attempt record was appended for it.
C23_SkipLeavesBreaker ==
  ev.kind \in {"skip", "skipEligible"}
    => LET c == ev.call
           id == calls[c].id
       IN \A p \in ev.skipped :
            /\ ev.before[p].state = "OPEN"
            /\ circuitBreakers[p] = ev.before[p]
            /\ calls[c].pc = "provider" => calls[c].p # p
            /\ \A j \in ev.nAtt + 1 .. Len(attempts[id]) :
                 attempts[id][j].provider # p

\* A send skipped the provider with the OPEN breaker and called the other one.
C23_Witness ==
  /\ ev.kind \in {"skip", "skipEligible"}
  /\ calls[ev.call].pc = "provider"
  /\ Len(attempts[calls[ev.call].id]) >= 1

\* C24: a fallback pass that ends without a success after calling a provider
\* does not throw the generic 'All providers failed' error (that one is kept
\* for a pass in which every provider was skipped), and when the last call of
\* the pass threw, the pass throws that error.
C24_LastConcreteError ==
  [][\A c \in Callers :
       (/\ calls[c].pc = "fbResume"
        /\ calls'[c].pc \in {"retryDelay", "sendResume"}
        /\ calls'[c].termErr # "none")
         => /\ calls'[c].termErr # AllFailedError
            /\ calls[c].carry.kind = "error" => calls'[c].termErr = calls[c].carry.x]_vars

\* C29, on the side of sendEmail (SpecSeq): a send that starts when the record
\* of its id is older than the TTL is not answered from the cache; it marks
\* the id in progress anew and goes on to the rate limiter and the providers.
C29_ExpiredSendDelivers ==
  [][\A c \in Callers :
       (/\ started' = started + 1
        /\ calls[c].pc = "idle" /\ calls'[c] # calls[c]
        /\ records[calls'[c].id].present
        /\ now - records[calls'[c].id].timestamp > idempotencyTtlMs)
         => /\ ~calls'[c].cached
            /\ calls'[c].pc \in {"rlWait", "rlDone"}
            /\ records'[calls'[c].id] =
                 [present |-> TRUE, timestamp |-> now, completed |-> FALSE,
                  result |-> Undefined]]_vars

\* C30: the attempt list of an id only grows and keeps the provider and the
\* sequence number of its records; a record appended for a provider gets the
\* number of that provider's records so far, itself included (so they are
\* numbered 1, 2, ... in append order); a record changes status at most
\* once, from sending to sent or failed.
C30_AttemptRecords ==
  [][attempts' # attempts
       => \A id \in Ids :
            LET old == attempts[id]
                new == attempts'[id]
            IN /\ Len(new) >= Len(old)
               /\ \A j \in 1 .. Len(old) :
                    /\ new[j].provider = old[j].provider
                    /\ new[j].attempt = old[j].attempt
                    /\ new[j].status # old[j].status
                         => /\ old[j].status = "sending"
                            /\ new[j].status \in {"sent", "failed"}
               /\ \A j \in Len(old) + 1 .. Len(new) :
                    new[j].attempt =
                      Cardinality({i \in 1 .. j : new[i].provider = new[j].provider})]_vars

\* Two overlapping sends of one id left records 1 and 2 of provider 0 with a
\* record of provider 1 between them.
C30_Witness ==
  \E id \in Ids :
    /\ \E c \in Callers : calls[c].id = id /\ calls[c].ov
    /\ \E i, j, k \in 1 .. Len(attempts[id]) :
         /\ i < j /\ j < k
         /\ attempts[id][i].provider = 0 /\ attempts[id][i].attempt = 1
         /\ attempts[id][j].provider = 1
         /\ attempts[id][k].provider = 0 /\ attempts[id][k].attempt = 2

\* The provider.sendEmail calls started so far for the ids of S: sendWithFallback
\* records one attempt for each, just before the call.
RECURSIVE providerCalls(_)
providerCalls(S) ==
  IF S = {} THEN 0
  ELSE LET id == CHOOSE x \in S : TRUE
       IN Len(attempts[id]) + providerCalls(S \ {id})

\* C13: the provider.sendEmail calls started within one rate-limit window
\* never outnumber maxRequestsPerMinute.  Stated for the window that ends at
\* `now` while now < windowSizeMs: every call made so far lies inside it.
C13_GateBoundsProviderCalls ==
  now < windowSizeMs => providerCalls(Ids) <= maxRequestsPerMinute

\* C17: when a fallback pass succeeds, sendEmail returns the outcome of the
\* provider that succeeded and that provider is the preferred one afterwards;
\* a pass starts with the preferred provider.
C17_FallbackBecomesPrimary ==
  \A c \in Callers :
    LET k == calls[c]
    IN /\ (k.pc = "sendResume" /\ k.carry.kind = "value")
            => (k.carry.x.success /\ k.carry.x.messageId[1] = primaryProviderIndex)
       /\ (k.pc = "idle" /\ k.result # NoResult /\ ~k.cached /\ k.termErr = "none")
            => /\ k.result.value.success
               /\ k.result.value.messageId[1] = primaryProviderIndex
       /\ (k.pc = "provider" /\ Len(k.considered) >= 1)
            => k.considered[1] = primaryProviderIndex

\* The first send: provider 0 was preferred and failed, provider 1 delivered.
C17_Witness ==
  \E c \in Callers :
    LET k == calls[c]
    IN /\ started = 1 /\ k.pc = "idle" /\ k.result # NoResult
       /\ k.result.value.success /\ k.result.value.messageId[1] = 1
       /\ primaryProviderIndex = 1
       /\ \E i \in 1 .. Len(attempts[k.id]) :
            attempts[k.id][i].provider = 0 /\ attempts[k.id][i].status = "failed"

\* C18: one fallback pass comes to every provider exactly once: to none
\* twice, and to all of them before it gives up.
C18_EachBackendOnce ==
  \A c \in Callers :
    LET k == calls[c]
    IN /\ \A i, j \in 1 .. Len(k.considered) :
            i # j => k.considered[i] # k.considered[j]
       /\ (k.pc \in {"retryDelay", "sendResume"} /\ k.termErr # "none")
            => {k.considered[i] : i \in 1 .. Len(k.considered)} = Providers

\* ------------------------------------------------------------------ SpecRL
\* The timestamps recorded so far that lie in the window (t - windowSizeMs, t]
inWindow(log, t) == SelectSeq(log, LAMBDA ts : ts > t - windowSizeMs /\ ts <= t)

\* checkRateLimit() is called: it returns at once or starts its delay.
RlCall(c) ==
  /\ rlCalls[c].pc \in {"idle", "done"}
  /\ Len(admits) + Cardinality({o \in RlCallers : rlCalls[o].pc = "wait"}) < MaxRlCalls
  /\ LET rl == checkRateLimit(requests, now)
         seen == inWindow(admits, now)
         k == [IdleRlCall EXCEPT
                 !.start = now,
                 !.full = Len(seen) >= maxRequestsPerMinute,
                 !.oldest = IF seen = <<>> THEN 0 ELSE SeqMin(seen)]
     IN /\ requests' = rl.requests
        /\ rlCalls' = [rlCalls EXCEPT ![c] =
              IF rl.wait > 0
              THEN [k EXCEPT !.pc = "wait", !.wake = now + rl.wait, !.waited = TRUE]
              ELSE [k EXCEPT !.pc = "done", !.admitted = now]]
        /\ admits' = IF rl.wait > 0 THEN admits ELSE Append(admits, now)
        /\ ev' = [kind |-> "rlCheck", call |-> c, returned |-> rl.wait = 0]
  /\ UNCHANGED <<now, circuitBreakers, cbPc, consec, hoSucc, records,
                 primaryProviderIndex, attempts, calls, started, nDeliveries, hist,
                 retry, calc, qVars, service>>

\* The delay of a waiting caller is over and checkRateLimit() runs again.
RlWake(c) ==
  /\ rlCalls[c].pc = "wait"
  /\ now >= rlCalls[c].wake
  /\ LET rl == recheck(requests, now)
     IN /\ requests' = rl.requests
        /\ rlCalls' = [rlCalls EXCEPT ![c] =
              IF rl.wait > 0
              THEN [@ EXCEPT !.wake = now + rl.wait]
              ELSE [@ EXCEPT !.pc = "done", !.wake = 0, !.admitted = now]]
        /\ admits' = IF rl.wait > 0 THEN admits ELSE Append(admits, now)
        /\ ev' = [kind |-> "rlCheck", call |-> c, returned |-> rl.wait = 0]
  /\ UNCHANGED <<now, circuitBreakers, cbPc, consec, hoSucc, records,
                 primaryProviderIndex, attempts, calls, started, nDeliveries, hist,
                 retry, calc, qVars, service>>

NextRL ==
  \/ \E c \in RlCallers : RlCall(c)
  \/ \E c \in RlCallers : RlWake(c)
  \/ Tick

SpecRL == InitCommon /\ [][NextRL]_vars

\* C11: in every window (a, a + windowSizeMs] at most maxRequestsPerMinute
\* timestamps have been recorded, whatever the interleaving of the callers
\* and of their re-checks after a wait.
C11_WindowNeverOvershoots ==
  \A a \in (0 - windowSizeMs) .. now :
    Len(inWindow(admits, a + windowSizeMs)) <= maxRequestsPerMinute

\* Two callers that waited at the same time were admitted at different times.
C11_Witness ==
  \E c1, c2 \in RlCallers :
    /\ c1 # c2
    /\ rlCalls[c1].pc = "done" /\ rlCalls[c1].waited
    /\ rlCalls[c2].pc = "done" /\ rlCalls[c2].waited
    /\ rlCalls[c1].start = rlCalls[c2].start
    /\ rlCalls[c1].admitted < rlCalls[c2].admitted

\* C12: a call made while the window holds fewer than maxRequestsPerMinute
\* timestamps returns at once; a call made while the window is full waits,
\* and returns no earlier than the oldest of them plus windowSizeMs.
C12_WaitsForOldest ==
  \A c \in RlCallers :
    LET k == rlCalls[c]
    IN /\ (k.pc # "idle" /\ ~k.full)
            => (k.pc = "done" /\ ~k.waited /\ k.admitted = k.start)
       /\ (k.pc # "idle" /\ k.full)
            => /\ k.waited
               /\ k.pc = "wait" => k.wake >= k.oldest + windowSizeMs
               /\ k.pc = "done" => k.admitted >= k.oldest + windowSizeMs

\* maxRequestsPerMinute calls returned at once at time 0, the next one waited.
C12_Witness ==
  /\ Len(admits) = maxRequestsPerMinute + 1
  /\ \A i \in 1 .. maxRequestsPerMinute : admits[i] = 0
  /\ \E c \in RlCallers :
       /\ rlCalls[c].pc = "done" /\ rlCalls[c].full /\ rlCalls[c].start = 0
       /\ rlCalls[c].admitted = rlCalls[c].oldest + windowSizeMs

\* The timers of the waiting callers fire and time goes on.
FairRL ==
  /\ WF_vars(Tick)
  /\ \A c \in RlCallers : WF_vars(RlWake(c))

SpecRLFair == InitCommon /\ [][NextRL]_vars /\ FairRL

\* C40: every suspended checkRateLimit call eventually returns (as far as
\* the clock of the model reaches: or its timer is set beyond MaxTime), and a
\* run of the check records exactly one timestamp, the current time, when the
\* call returns and none when it suspends the caller; it suspends the caller
\* only while the window is full, until the oldest timestamp leaves the window.
C40_EventuallyAdmitted ==
  /\ \A c \in RlCallers :
       (rlCalls[c].pc = "wait")
         ~> (rlCalls[c].pc = "done" \/ rlCalls[c].wake > MaxTime)
  /\ [][ev'.kind = "rlCheck"
         => LET kept == SelectSeq(requests, LAMBDA ts : ts > now - windowSizeMs)
            IN /\ ev'.returned <=> rlCalls'[ev'.call].pc = "done"
               /\ requests' = IF ev'.returned THEN Append(kept, now) ELSE kept
               /\ ~ev'.returned
                    => /\ Len(kept) >= maxRequestsPerMinute
                       /\ rlCalls'[ev'.call].pc = "wait"
                       /\ rlCalls'[ev'.call].wake = SeqMin(kept) + windowSizeMs
                       /\ rlCalls'[ev'.call].wake > now]_vars

\* C40 witness: a caller that was suspended, re-evaluated, suspended again
\* and re-evaluated has been admitted
C40_Witness ==
  \E c \in RlCallers :
    /\ rlCalls[c].pc = "done"
    /\ rlCalls[c].waited
    /\ rlCalls[c].admitted >= rlCalls[c].start + 2 * windowSizeMs
    /\ windowSizeMs >= 1

\* ---------------------------------------------------------------- SpecCtor
\* The service from before its construction: the constructor is given an
\* empty provider list or the two providers; sendEmail can be called on the
\* instance once there is one.
ProviderLists == {<<>>, <<0, 1>>}

Construct(list) ==
  /\ service.status # "built"
  /\ service' = construct(list)
  /\ ev' = [kind |-> "construct", given |-> list]
  /\ UNCHANGED <<now, circuitBreakers, cbPc, consec, hoSucc, records, requests,
                 primaryProviderIndex, attempts, calls, started, nDeliveries, hist,
                 retry, calc, rlVars, qVars>>

NextCtor ==
  \/ \E list \in ProviderLists : Construct(list)
  \/ service.status = "built" /\ SendStep(1, Ids, {"ok", "throw"})
  \/ Tick

InitCtor == InitParts /\ service = [status |-> "none", providers |-> <<>>]

SpecCtor == InitCtor /\ [][NextCtor]_vars

\* C25: the constructor throws when it is given no provider; an instance
\* that exists has at least one provider, and a send runs only on an instance
\* that exists.
C25_NoEmptyService ==
  /\ (ev.kind = "construct" /\ ev.given = <<>>) => service.status = "threw"
  /\ service.status = "built" => Len(service.providers) >= 1
  /\ (started > 0 \/ \E c \in Callers : calls[c].pc # "idle")
       => (service.status = "built" /\ Len(service.providers) >= 1)

\* The constructor was given an empty list and threw.
C25_Witness ==
  /\ ev.kind = "construct" /\ ev.given = <<>>
  /\ service.status = "threw"

\* ---------------------------------------------------------------- SpecIdem
\* One IdempotencyManager driven directly through its public methods, as its
\* unit tests drive it, with the sweep and the clock running in between.
IdemResults == {Success(0, 1), Failure(ProviderError(0))}  \* results given to markCompleted

idemFrame == <<now, circuitBreakers, cbPc, consec, hoSucc, requests, primaryProviderIndex,
               attempts, calls, started, nDeliveries, hist, retry, calc, rlVars, qVars,
               service>>

IdemIsDuplicate(id) ==
  /\ LET d == isDuplicate(records, id, now)
     IN /\ records' = d.recs
        /\ ev' = [kind |-> "isDuplicate", id |-> id, value |-> d.dup,
                  before |-> records[id]]
  /\ UNCHANGED idemFrame

IdemGetResult(id) ==
  /\ ev' = [kind |-> "getResult", id |-> id, value |-> getResult(records, id, now),
            before |-> records[id]]
  /\ UNCHANGED <<records, idemFrame>>

IdemMarkInProgress(id) ==
  /\ records' = markInProgress(records, id, now)
  /\ ev' = [kind |-> "markInProgress", id |-> id, before |-> records[id]]
  /\ UNCHANGED idemFrame

IdemMarkCompleted(id, result) ==
  /\ records' = markCompleted(records, id, result)
  /\ ev' = [kind |-> "markCompleted", id |-> id, before |-> records[id]]
  /\ UNCHANGED idemFrame

IdemRemove(id) ==
  /\ records' = remove(records, id)
  /\ ev' = [kind |-> "remove", id |-> id, before |-> records[id]]
  /\ UNCHANGED idemFrame

NextIdem ==
  \/ \E id \in Ids : IdemIsDuplicate(id)
  \/ \E id \in Ids : IdemGetResult(id)
  \/ \E id \in Ids : IdemMarkInProgress(id)
  \/ \E id \in Ids, result \in IdemResults : IdemMarkCompleted(id, result)
  \/ \E id \in Ids : IdemRemove(id)
  \/ ClearIdempotencyCache
  \/ Cleanup
  \/ Tick

SpecIdem == InitCommon /\ [][NextIdem]_vars

\* A record that exists and whose age is at most the TTL
live(rec) == rec.present /\ now - rec.timestamp <= idempotencyTtlMs

\* C27: isDuplicate(id) is true exactly when a live record for id exists,
\* completed or not; getResult(id) is the stored outcome when that record is
\* live and completed, and absence otherwise.
C27_Lookups ==
  /\ ev.kind = "isDuplicate" => (ev.value <=> live(ev.before))
  /\ ev.kind = "getResult"
       => ev.value = (IF live(ev.before) /\ ev.before.completed
                      THEN ev.before.result ELSE Undefined)

\* isDuplicate answered true for a record that is in progress and as old as the TTL
C27_Witness ==
  /\ ev.kind = "isDuplicate" /\ ev.value
  /\ ~ev.before.completed
  /\ now - ev.before.timestamp = idempotencyTtlMs

\* C28: markInProgress(id) replaces whatever record id had with a fresh one
\* (not completed, timestamp = now); a record that is not completed gives no
\* result, and only markCompleted turns a record completed.
C28_MarkInProgressOverwrites ==
  [][/\ ev'.kind = "markInProgress"
          => /\ records'[ev'.id].present
             /\ ~records'[ev'.id].completed
             /\ records'[ev'.id].timestamp = now
             /\ getResult(records', ev'.id, now) = Undefined
     /\ \A id \in Ids :
          /\ (records'[id].present /\ ~records'[id].completed)
               => getResult(records', id, now') = Undefined
          /\ (records'[id].present /\ records'[id].completed
               /\ ~(records[id].present /\ records[id].completed))
               => (ev'.kind = "markCompleted" /\ ev'.id = id)]_vars

\* markInProgress ran on a live completed record, which had a cached outcome.
C28_Witness ==
  /\ ev.kind = "markInProgress"
  /\ ev.before.present /\ ev.before.completed
  /\ now - ev.before.timestamp <= idempotencyTtlMs
  /\ records[ev.id].present /\ ~records[ev.id].completed

\* C29: a record expires by its creation time: markCompleted leaves the
\* timestamp alone, and isDuplicate on a record older than the TTL answers
\* false and deletes it, so that no result is found for the id afterwards.
C29_ExpiredEvicted ==
  [][/\ ev'.kind = "markCompleted"
          => records'[ev'.id].present = records[ev'.id].present
             /\ (records[ev'.id].present
                  => records'[ev'.id].timestamp = records[ev'.id].timestamp)
     /\ (ev'.kind = "isDuplicate" /\ records[ev'.id].present
          /\ now - records[ev'.id].timestamp > idempotencyTtlMs)
          => /\ ~ev'.value
             /\ records'[ev'.id] = NoRecord
             /\ getResult(records', ev'.id, now) = Undefined]_vars

\* isDuplicate ran on a completed record older than the TTL.
C29_Witness ==
  /\ ev.kind = "isDuplicate" /\ ~ev.value
  /\ ev.before.present /\ ev.before.completed
  /\ now - ev.before.timestamp > idempotencyTtlMs
  /\ records[ev.id] = NoRecord

\* ------------------------------------------------------------------- SpecQ
\* EmailQueue with its processor registered (EmailService's constructor
\* registers it).  The processor is any asynchronous function: its call
\* resolves or rejects at any later time.
sealBurst == IF qBurst = "open" /\ enqueued # <<>> THEN "sealed" ELSE qBurst

\* enqueue(email, priority), with the start of the processing loop it makes
\* when no loop is running.
Enqueue(id, priority) ==
  /\ Len(enqueued) < MaxEnqueue
  /\ LET n == Len(enqueued) + 1
         heap1 == Append(enqueued, newItem(id, priority))
         q1 == insertItem(queue, heap1, n, priority)
     IN IF processing
        THEN /\ queue' = q1
             /\ enqueued' = heap1
             /\ UNCHANGED <<processing, loops, qLog>>
        ELSE /\ \E l \in LoopIds : loops[l].pc = "none"
             /\ LET l == CHOOSE l \in LoopIds : loops[l].pc = "none"
                    r == loopTop(q1, heap1, qLog, qNow)
                IN /\ queue' = q1
                   /\ enqueued' = r.heap
                   /\ processing' = ~r.ended
                   /\ loops' = [loops EXCEPT ![l] = r.loop]
                   /\ qLog' = r.log
  /\ qBurst' = IF qBurst = "sealed" THEN "broken" ELSE qBurst
  /\ ev' = NoEvent
  /\ UNCHANGED <<now, circuitBreakers, cbPc, consec, hoSucc, svcVars, rlVars, retry,
                 calc, qNow>>

\* The processor call of loop l settles: `await this.processor(item.email)`
\* returns (ok) or throws; the loop runs on to `await this.delay(100)`.
ProcSettle(l, ok) ==
  /\ loops[l].pc = "proc"
  /\ LET n == loops[l].item
         heap1 == IF ok THEN enqueued
                  ELSE IF enqueued[n].attempts >= MaxAttempts
                       THEN [enqueued EXCEPT ![n].status = "failed"]
                       ELSE [enqueued EXCEPT
                               ![n].status = "retrying",
                               ![n].nextAttempt =
                                  qNow + Pow2(enqueued[n].attempts) * RetryUnit,
                               ![n].failedAt = qNow]
         drop == ok \/ enqueued[n].attempts >= MaxAttempts
     IN /\ enqueued' = heap1
        /\ queue' = IF drop THEN removeItem(queue, heap1, heap1[n].id) ELSE queue
        /\ loops' = [loops EXCEPT ![l] =
                       [pc |-> "pause", item |-> 0, wake |-> qNow + ShortPause]]
  /\ qBurst' = sealBurst
  /\ ev' = [kind |-> "procEnd", item |-> loops[l].item, ok |-> ok]
  /\ UNCHANGED <<now, circuitBreakers, cbPc, consec, hoSucc, svcVars, rlVars, retry,
                 calc, processing, qNow, qLog>>

\* The delay of loop l is over: the loop tests the queue again.
PauseWake(l) ==
  /\ loops[l].pc = "pause"
  /\ qNow >= loops[l].wake
  /\ LET r == loopTop(queue, enqueued, qLog, qNow)
     IN /\ enqueued' = r.heap
        /\ processing' = IF r.ended THEN FALSE ELSE processing
        /\ loops' = [loops EXCEPT ![l] = r.loop]
        /\ qLog' = r.log
  /\ qBurst' = sealBurst
  /\ ev' = NoEvent
  /\ UNCHANGED <<now, circuitBreakers, cbPc, consec, hoSucc, svcVars, rlVars, retry,
                 calc, queue, qNow>>

\* clear()
QueueClear ==
  /\ queue' = <<>>
  /\ qBurst' = sealBurst
  /\ ev' = NoEvent
  /\ UNCHANGED <<now, circuitBreakers, cbPc, consec, hoSucc, svcVars, rlVars, retry,
                 calc, processing, loops, qNow, enqueued, qLog>>

\* Time passes: up to the next timer of a pausing loop, or by one second
\* while a processor call is in flight.  A timer that is due fires first.
QTick ==
  /\ \A l \in LoopIds : loops[l].pc = "pause" => loops[l].wake > qNow
  /\ \E l \in LoopIds : loops[l].pc # "none"
  /\ LET wakes == {loops[l].wake : l \in {m \in LoopIds : loops[m].pc = "pause"}}
         t1 == IF wakes = {} THEN qNow + IdlePause
               ELSE CHOOSE w \in wakes : \A v \in wakes : w <= v
     IN /\ t1 <= QMaxTime
        /\ qNow' = t1
  /\ qBurst' = sealBurst
  /\ ev' = NoEvent
  /\ UNCHANGED <<now, circuitBreakers, cbPc, consec, hoSucc, svcVars, rlVars, retry,
                 calc, queue, processing, loops, enqueued, qLog>>

\* The message ids enqueue may be given next: one used before, or the first
\* unused one (which unused id comes first makes no difference).
nextIds ==
  LET used == {enqueued[n].id : n \in 1 .. Len(enqueued)}
      k == Cardinality(used)
  IN used \cup (IF k < Len(QIds) THEN {QIds[k + 1]} ELSE {})

NextQ ==
  \/ \E id \in nextIds, priority \in QPriorities : Enqueue(id, priority)
  \/ \E l \in LoopIds : ProcSettle(l, TRUE)
  \/ \E l \in LoopIds : ProcSettle(l, FALSE)
  \/ \E l \in LoopIds : PauseWake(l)
  \/ QueueClear
  \/ QTick

SpecQ == InitCommon /\ [][NextQ]_vars

\* The positions of qLog at which an item is processed for the first time
firstRuns == {i \in 1 .. Len(qLog) : \A j \in 1 .. i - 1 : qLog[j] # qLog[i]}

\* C19: the items of a burst of enqueues on an idle queue are processed, for
\* the first time each, in descending priority.
C19_BurstInPriorityOrder ==
  qBurst # "broken"
    => \A i, j \in firstRuns :
         i < j => enqueued[qLog[i]].priority >= enqueued[qLog[j]].priority

\* The number of processor invocations on item n so far
runsOf(n) == Cardinality({i \in 1 .. Len(qLog) : qLog[i] = n})

\* C20: no item is processed more than 3 times, and an item whose third
\* processing failed is no longer in the queue (getStats counts no failed
\* item) and was processed exactly 3 times.
C20_DroppedAfterThree ==
  /\ \A n \in 1 .. Len(enqueued) : runsOf(n) <= MaxAttempts
  /\ \A n \in 1 .. Len(enqueued) :
       enqueued[n].status = "failed"
         => /\ runsOf(n) = MaxAttempts
            /\ \A i \in 1 .. Len(queue) : queue[i] # n
  /\ getStats(queue, enqueued).failed = 0

\* Item n of the array can still leave it through the loop: getNextItem can
\* pick it (now or once its retry time has come), or a loop is awaiting the
\* processor call made on it.
inReach(n) ==
  \/ enqueued[n].status \in {"pending", "retrying"}
  \/ \E l \in LoopIds : loops[l].pc = "proc" /\ loops[l].item = n

\* C21: every enqueued item is eventually removed and the loop ends.  The
\* loop removes an item only after getNextItem picked it, so the claim needs
\* every item of the array to be within the loop's reach at all times.
C21_QueueDrains ==
  \A i \in 1 .. Len(queue) : inReach(queue[i])

\* C22: when a processor call settles whose item clear() has taken out of the
\* array in the meantime, the array stays as it is (the cleared item is not
\* put back, no other item is removed) and no other item is altered.
C22_ClearedResultDiscarded ==
  [][(ev'.kind = "procEnd" /\ \A i \in 1 .. Len(queue) : queue[i] # ev'.item)
       => /\ queue' = queue
          /\ \A m \in 1 .. Len(enqueued) : m # ev'.item => enqueued'[m] = enqueued[m]]_vars

\* ------------------------------------------------------------------ SpecQL
\* The same queue with two priority levels and every message carrying the
\* same id, the case in which removeItem may take another item out of the
\* array than the one that was processed.
LevelPriorities == {0, 5}

NextQL ==
  \/ \E priority \in LevelPriorities : Enqueue(QIds[1], priority)
  \/ \E l \in LoopIds : ProcSettle(l, TRUE)
  \/ \E l \in LoopIds : ProcSettle(l, FALSE)
  \/ \E l \in LoopIds : PauseWake(l)
  \/ QueueClear
  \/ QTick

SpecQL == InitCommon /\ [][NextQL]_vars

\* The loops awaiting the processor call made on item n
procOn(n) == {l \in LoopIds : loops[l].pc = "proc" /\ loops[l].item = n}

\* The time the schedule makes an item wait after its a-th failure: 2 s
\* after the first, 4 s after the second
retryWait(a) == IF a = 1 THEN 2 * RetryUnit ELSE 4 * RetryUnit

\* C31: a processing of an item that failed as its a-th, a < 3, leaves the
\* item retrying with no processor call on it, and whenever the processor runs
\* on an item for the (a+1)-th time, at least 2^a seconds have passed since
\* that failure.
C31_RetrySchedule ==
  /\ (ev.kind = "procEnd" /\ ~ev.ok /\ enqueued[ev.item].attempts < MaxAttempts)
       => /\ enqueued[ev.item].status = "retrying"
          /\ enqueued[ev.item].failedAt = qNow
  /\ \A n \in 1 .. Len(enqueued) :
       /\ enqueued[n].status = "retrying"
            => /\ enqueued[n].attempts \in 1 .. MaxAttempts - 1
               /\ procOn(n) = {}
       /\ (procOn(n) # {} /\ enqueued[n].attempts >= 2)
            => qNow >= enqueued[n].failedAt + retryWait(enqueued[n].attempts - 1)

\* C31 witness: the processor runs on an item for the third time, after its
\* second failure was rescheduled
C31_Witness ==
  \E n \in 1 .. Len(enqueued) :
    /\ procOn(n) # {}
    /\ enqueued[n].attempts = MaxAttempts
    /\ enqueued[n].failedAt > 0
    /\ qNow < enqueued[n].failedAt + retryWait(2) + IdlePause

\* Item n is one getNextItem may return at time t
eligible(heap, n, t) ==
  \/ heap[n].status = "pending"
  \/ heap[n].status = "retrying" /\ heap[n].nextAttempt <= t

\* The array is in dequeue order: priority descending, and items of equal
\* priority in the order of their enqueue
inOrder(q, heap) ==
  \A i, j \in 1 .. Len(q) :
    i < j => \/ heap[q[i]].priority > heap[q[j]].priority
             \/ heap[q[i]].priority = heap[q[j]].priority /\ q[i] < q[j]

\* C32: the array is always in dequeue order, and a step in which a loop
\* selects an item selects one that was eligible (or was enqueued by the
\* step) and leaves no eligible item before it in the array.
C32_QueueOrder ==
  /\ [](inOrder(queue, enqueued))
  /\ [][\A l \in LoopIds :
          (loops[l].pc # "proc" /\ loops'[l].pc = "proc")
            => LET n == loops'[l].item
               IN /\ \E i \in 1 .. Len(queue') : queue'[i] = n
                  /\ n <= Len(enqueued) => eligible(enqueued, n, qNow)
                  /\ enqueued'[n].status = "sending"
                  /\ \A i \in 1 .. Len(queue') :
                       eligible(enqueued', queue'[i], qNow')
                         => \E j \in 1 .. i - 1 : queue'[j] = n]_vars

\* C32 witness: the processor runs on an item that stands in the array behind
\* an item of higher priority which is retrying and not yet due
C32_Witness ==
  \E i, j \in 1 .. Len(queue) :
    /\ i < j
    /\ procOn(queue[j]) # {}
    /\ enqueued[queue[j]].status = "sending"
    /\ enqueued[queue[i]].priority > enqueued[queue[j]].priority
    /\ enqueued[queue[i]].status = "retrying"
    /\ enqueued[queue[i]].nextAttempt > qNow

\* The activations of startProcessing that are running
activeLoops == {l \in LoopIds : loops[l].pc # "none"}

\* C37: at most one processing loop is running and at most one processor
\* call is in flight, whatever enqueue and clear calls come in between; the
\* processing flag is set exactly while a loop runs.
C37_SerialProcessing ==
  /\ Cardinality(activeLoops) <= 1
  /\ Cardinality({l \in LoopIds : loops[l].pc = "proc"}) <= 1
  /\ processing <=> activeLoops # {}

\* C37 witness: during one processor call the queue was cleared and an item
\* was enqueued after that
C37_Witness ==
  \E l \in LoopIds :
    /\ loops[l].pc = "proc"
    /\ \A i \in 1 .. Len(queue) : queue[i] # loops[l].item
    /\ queue # <<>>
    /\ processing

\* C38: outside the queue's synchronous code a non-empty array implies that
\* the processing flag is set, and an enqueued item does not get lost: an
\* item leaves the array only by clear() or after the loop has handed it to
\* the processor.
C38_NoLostWakeup ==
  [][/\ queue' # <<>> => processing'
     /\ ev'.kind = "procEnd"
          => \A i \in 1 .. Len(queue) :
               (\A j \in 1 .. Len(queue') : queue'[j] # queue[i])
                 => runsOf(queue[i]) >= 1]_vars

\* C39: when the processor call on an item has settled, that item is out of
\* the array or retrying, and no item of the array has status sending
\* without a processor call in flight on it.
C39_NoStuckItem ==
  /\ ev.kind = "procEnd"
       => \/ \A i \in 1 .. Len(queue) : queue[i] # ev.item
          \/ enqueued[ev.item].status = "retrying"
  /\ \A i \in 1 .. Len(queue) :
       enqueued[queue[i]].status = "sending" => procOn(queue[i]) # {}

\* --------------------------------------------------------------- SpecRetry
\* operation() is invoked (the await of line 25) and settles: it resolves with
\* a value or rejects with an error, both chosen freely; r is the draw of
\* Math.random() should the catch block back off.
RetryInvoke(ok, x, r) ==
  /\ retry.pc = "attempt"
  /\ LET r1 == [retry EXCEPT !.log = Append(@, [ok |-> ok, x |-> x])]
         go == IF ok THEN retryTry(retry.cfg, retry.attempt)
                     ELSE retryCatch(retry.cfg, retry.attempt)
     IN retry' =
          CASE go = "return" ->
                 [r1 EXCEPT !.pc = "returned", !.result = [kind |-> "value", x |-> x]]
            [] go = "throw" ->
                 [r1 EXCEPT !.pc = "thrown", !.result = [kind |-> "error", x |-> x]]
            [] go = "delay" ->
                 [r1 EXCEPT !.pc = "delay",
                            !.delay = calculateDelay(retry.cfg, retry.attempt, r)]
            [] go = "next" -> [r1 EXCEPT !.attempt = @ + 1]
  /\ ev' = [kind |-> "retryInvoke", ok |-> ok]
  /\ UNCHANGED <<now, circuitBreakers, cbPc, consec, calc, svcVars, hoSucc, rlVars, qVars>>

\* The backoff timer fires: attempt++ and the loop condition is evaluated.
RetryWake ==
  /\ retry.pc = "delay"
  /\ retry' = IF retry.attempt + 1 <= retry.cfg.maxRetries + 1
              THEN [retry EXCEPT !.attempt = @ + 1, !.pc = "attempt"]
              ELSE [retry EXCEPT !.attempt = @ + 1, !.pc = "thrown"]
  /\ ev' = [kind |-> "retryWake"]
  /\ UNCHANGED <<now, circuitBreakers, cbPc, consec, calc, svcVars, hoSucc, rlVars, qVars>>

InitRetry ==
  /\ InitService /\ InitCbIdle /\ InitRlIdle /\ InitQueueIdle /\ InitBuilt
  /\ retry \in {RetryStart(cfg) : cfg \in RetryConfigs}
  /\ calc = CalcStart(ServiceRetryConfig, 1, 0)

NextRetry ==
  \/ \E x \in OpValues : RetryInvoke(TRUE, x, 0)
  \/ \E x \in OpErrors, r \in 0 .. JitterSteps - 1 : RetryInvoke(FALSE, x, r)
  \/ RetryWake

SpecRetry == InitRetry /\ [][NextRetry]_vars

AllFailed(log) == \A i \in 1 .. Len(log) : ~log[i].ok

\* C8: an operation that always fails is invoked exactly maxRetries + 1 times and
\* executeWithRetry throws the error of the last invocation.
C8_AlwaysFailing ==
  /\ (retry.pc \in {"returned", "thrown"} /\ AllFailed(retry.log)) =>
        /\ retry.pc = "thrown"
        /\ Len(retry.log) = retry.cfg.maxRetries + 1
        /\ retry.result = [kind |-> "error", x |-> retry.log[Len(retry.log)].x]
  /\ (AllFailed(retry.log) /\ Len(retry.log) = retry.cfg.maxRetries + 1) =>
        retry.pc = "thrown"

C8_Witness ==
  /\ retry.pc = "thrown" /\ retry.cfg.maxRetries = 2 /\ Len(retry.log) = 3
  /\ retry.log[1].x # retry.log[3].x

\* C9: if the operation first succeeds on its k-th invocation it is invoked
\* exactly k times, that invocation's result is returned, and nothing is
\* invoked after a success.
C9_FirstSuccess ==
  /\ \A i \in 1 .. Len(retry.log) : retry.log[i].ok =>
        /\ i = Len(retry.log)
        /\ retry.pc = "returned"
        /\ retry.result = [kind |-> "value", x |-> retry.log[i].x]
  /\ retry.pc = "returned" =>
        (Len(retry.log) >= 1 /\ retry.log[Len(retry.log)].ok)
  /\ Len(retry.log) <= retry.cfg.maxRetries + 1

C9_Witness ==
  /\ retry.pc = "returned" /\ Len(retry.log) = 3 /\ retry.cfg.maxRetries = 3

\* --------------------------------------------------------------- SpecDelay
\* calculateDelay applied to one drawn (configuration, attempt, random draw).
CalcApply ==
  /\ calc.pc = "call"
  /\ calc' = [calc EXCEPT !.pc = "done",
                          !.result = calculateDelay(calc.cfg, calc.attempt, calc.r)]
  /\ ev' = [kind |-> "calc"]
  /\ UNCHANGED <<now, circuitBreakers, cbPc, consec, retry, svcVars, hoSucc, rlVars, qVars>>

InitDelay ==
  /\ InitService /\ InitCbIdle /\ InitRlIdle /\ InitQueueIdle /\ InitBuilt
  /\ retry = RetryStart(ServiceRetryConfig)
  /\ calc \in {CalcStart(cfg, a, r) : cfg \in RetryConfigs,
                                     a \in (1 .. MaxRetriesBound + 1) \cup {BigAttempt},
                                     r \in 0 .. JitterSteps - 1}

NextDelay == CalcApply

SpecDelay == InitDelay /\ [][NextDelay]_vars

\* C10: for every attempt >= 1 and every jitter draw the computed delay is at
\* most maxDelay and is non-negative.
C10_DelayBounded ==
  calc.pc = "done" =>
     /\ fle(calc.result, maxDelayOf(calc.cfg))
     /\ fle(Fin(0), calc.result)

\* The same bound where the power baseDelay is multiplied with is finite or
\* baseDelay is not 0.
C10_FiniteDelayBounded ==
  (calc.pc = "done" /\ (calc.cfg.baseDelay > 0 \/ fpow(calc.cfg.backoffMultiplier, calc.attempt - 1).k = "fin")) =>
     /\ fle(calc.result, maxDelayOf(calc.cfg))
     /\ fle(Fin(0), calc.result)
====
